---------------------------- MODULE Spec2Model ----------------------------
(***************************************************************************)
(* A model of tg_go_to_frame.py: one Entry widget whose text is seeded     *)
(* from the Terragen project's current_frame, edited by typing, the Up and *)
(* Down keys, the mouse wheel and Escape, validated by int(), and pushed   *)
(* back with set_param on every key release.                               *)
(*                                                                         *)
(* A text is a sequence of one-character strings.  int() and str() are     *)
(* modelled by what they do on such sequences (IsInt, ParseInt, IntToStr). *)
(* tg.root() only yields the project handle; the failures of the remote    *)
(* interface are carried by get_param and set_param.                       *)
(***************************************************************************)
EXTENDS Integers, Sequences, FiniteSets, TLC

(* ------------------------------ bounds --------------------------------- *)

\* The Up/Down keys and the wheel are followed while the frame they leave
\* in the widget is in -MaxBack .. MaxFrame.
MaxFrame == 10
MaxBack == 2

\* The warnings counted since the flag was last cleared, and in one run of
\* invalid text, are counted up to this cap.
MaxCount == 2

(* ------------------------------ inputs --------------------------------- *)

\* The texts the user leaves in the Entry widget by typing: empty, not a
\* number, a bare sign, a number followed by a letter, and integers as int()
\* takes them (plain, signed, padded with white space, with a leading zero).
Typed == { <<>>, <<"a">>, <<"-">>, <<"1", "a">>,
           <<"5">>, <<"-", "1">>, <<"+", "1">>, <<" ", "1", " ">>,
           <<"0", "9">>, <<"-", "0">> }

\* The Terragen projects the script is started against.
Projects == { [current_frame |-> -1, start_frame |-> 0, end_frame |-> 10],
              [current_frame |-> 9,  start_frame |-> 1, end_frame |-> 12] }

\* event.delta of a <MouseWheel> event.
Deltas == {-120, 0, 1}

\* How a call of the remote interface ends: it returns, or it raises one of
\* the four exceptions the handlers catch.
Failures == {"ConnectionError", "TimeoutError", "ReplyError", "ApiError"}
Outcomes == {"ok"} \cup Failures

(* ------------------------------ int / str ------------------------------ *)

DigitChars == <<"0", "1", "2", "3", "4", "5", "6", "7", "8", "9">>

IsDigit(c) == \E i \in 1..10 : DigitChars[i] = c

DigitVal(c) == (CHOOSE i \in 1..10 : DigitChars[i] = c) - 1

\* str.strip() as int() applies it: white space off both ends.
RECURSIVE StripLeft(_)
StripLeft(s) ==
    IF s # <<>> /\ Head(s) = " " THEN StripLeft(Tail(s)) ELSE s

RECURSIVE StripRight(_)
StripRight(s) ==
    IF s # <<>> /\ s[Len(s)] = " " THEN StripRight(SubSeq(s, 1, Len(s) - 1)) ELSE s

Strip(s) == StripRight(StripLeft(s))

HasSign(s) == s # <<>> /\ Head(s) \in {"+", "-"}

\* The digits of a stripped text, after its optional sign.
Magnitude(s) == IF HasSign(s) THEN Tail(s) ELSE s

\* int(value) does not raise ValueError: optional white space, an optional
\* sign, then one or more decimal digits.
IsInt(value) ==
    LET m == Magnitude(Strip(value))
    IN  /\ m # <<>>
        /\ \A i \in 1..Len(m) : IsDigit(m[i])

RECURSIVE DigitsValue(_)
DigitsValue(m) ==
    IF m = <<>> THEN 0
    ELSE 10 * DigitsValue(SubSeq(m, 1, Len(m) - 1)) + DigitVal(m[Len(m)])

\* int(value), for a value that IsInt.
ParseInt(value) ==
    LET s == Strip(value)
    IN  IF HasSign(s) /\ Head(s) = "-"
        THEN 0 - DigitsValue(Magnitude(s))
        ELSE DigitsValue(Magnitude(s))

RECURSIVE NatToStr(_)
NatToStr(n) ==
    IF n < 10 THEN <<DigitChars[n + 1]>>
    ELSE NatToStr(n \div 10) \o <<DigitChars[(n % 10) + 1]>>

\* str(n): what StringVar.set stores for an integer.
IntToStr(n) == IF n < 0 THEN <<"-">> \o NatToStr(0 - n) ELSE NatToStr(n)

(* ------------------------------ state ---------------------------------- *)

VARIABLES
    pc,                        \* "Uninitialized" before on_startup(), then "Ready"
    current_frame_var,         \* the text of the Entry widget
    current_frame_at_startup,  \* the snapshot Escape restores
    start_frame_var,
    end_frame_var,
    ERROR_SHOWN,               \* the "Invalid input" popup has been shown
    remote,                    \* the parameters of the Terragen project
    event,                     \* the handler that ran last, and its event.delta
    calls,                     \* the remote calls the last handler made
    popups,                    \* the warnings the last handler showed
    shown_since_clear,         \* "Invalid input" popups since on_go_to last
                               \* cleared ERROR_SHOWN (since the start, before)
    run_popups,                \* "Invalid input" popups in the present run of
                               \* invalid text
    run_validated,             \* a handler has validated the text in this run
    up_key                     \* the Up key: "up", "pressed" (its <Up> event
                               \* was the last event), "held" (down, and
                               \* something was dispatched since); "untracked"
                               \* where the keys are not followed

vars == <<pc, current_frame_var, current_frame_at_startup, start_frame_var,
          end_frame_var, ERROR_SHOWN, remote, event, calls, popups,
          shown_since_clear, run_popups, run_validated, up_key>>

Ev(name, delta) == [name |-> name, delta |-> delta]

\* One call of the remote interface, as the handler sees it.
Call(op, name, value, result) ==
    [op |-> op, name |-> name, value |-> value, result |-> result]

ScriptName == "tg_go_to_frame.py"

popup_warning(title, message) == [title |-> title, message |-> message]

\* The popup of an except clause.
rpc_warning(kind) ==
    popup_warning(ScriptName,
        CASE kind = "ConnectionError" -> "Terragen RPC connection error"
          [] kind = "TimeoutError"    -> "Terragen RPC timeout error"
          [] kind = "ReplyError"      -> "Terragen RPC reply error"
          [] kind = "ApiError"        -> "Terragen RPC API error")

\* The module-level assignments made before on_startup() is called.
Loaded ==
    /\ pc = "Uninitialized"
    /\ current_frame_var = <<"1">>
    /\ current_frame_at_startup = <<>>
    /\ start_frame_var = <<>>
    /\ end_frame_var = <<>>
    /\ ERROR_SHOWN = FALSE
    /\ remote \in Projects
    /\ event = Ev("none", 0)
    /\ calls = <<>>
    /\ popups = <<>>
    /\ shown_since_clear = 0
    /\ run_popups = 0
    /\ run_validated = FALSE

\* Events in any order, the keys behind them not followed.
Init == Loaded /\ up_key = "untracked"

\* The Up key followed from its press to its release.
InitKeys == Loaded /\ up_key = "up"

\* What an event does to the Up key.  kind is "press_up" for <Up>,
\* "release_up" for the <KeyRelease> of the Up key, "other" for any other
\* event; with the key held down the keyboard repeats <Up>.
Keys(kind) ==
    up_key' = IF up_key = "untracked" THEN "untracked"
              ELSE IF kind = "release_up" THEN "up"
              ELSE IF kind = "press_up"
                   THEN (IF up_key = "up" THEN "pressed" ELSE "held")
              ELSE IF up_key = "pressed" THEN "held"
              ELSE up_key

\* The "Invalid input" popups among those a handler showed.
InvalidShown(ps) ==
    Cardinality({i \in 1..Len(ps) : ps[i].title = "Invalid input"})

Capped(n) == IF n > MaxCount THEN MaxCount ELSE n

\* The counts after a handler has run: `validates` says that the handler
\* called is_valid_integer, `clears` that it set ERROR_SHOWN to False.  A run
\* of invalid text lasts while the text of the widget is no integer.
Tally(validates, clears) ==
    /\ shown_since_clear' =
          IF clears THEN 0 ELSE Capped(shown_since_clear + InvalidShown(popups'))
    /\ IF IsInt(current_frame_var') \/ IsInt(current_frame_var)
       THEN /\ run_popups' = 0
            /\ run_validated' = FALSE
       ELSE /\ run_popups' = Capped(run_popups + InvalidShown(popups'))
            /\ run_validated' = (run_validated \/ validates)

(* ------------------------------ startup -------------------------------- *)

\* on_startup going on to the next get_param after current_frame raised.
startup_result_goes_on(o1, o2, o3, cur, s, e) ==
    LET c1 == Call("get_param", "current_frame", IF o1 = "ok" THEN cur ELSE 0, o1)
        c2 == Call("get_param", "start_frame", IF o2 = "ok" THEN s ELSE 0, o2)
        c3 == Call("get_param", "end_frame", IF o3 = "ok" THEN e ELSE 0, o3)
    IN  IF o1 # "ok" THEN
            [at_startup |-> current_frame_at_startup, var |-> current_frame_var,
             start |-> start_frame_var, end |-> end_frame_var,
             calls |-> <<c1, c2>>, popups |-> <<rpc_warning(o1)>>]
        ELSE IF o2 # "ok" THEN
            [at_startup |-> IntToStr(cur), var |-> IntToStr(cur),
             start |-> start_frame_var, end |-> end_frame_var,
             calls |-> <<c1, c2>>, popups |-> <<rpc_warning(o2)>>]
        ELSE IF o3 # "ok" THEN
            [at_startup |-> IntToStr(cur), var |-> IntToStr(cur),
             start |-> IntToStr(s), end |-> end_frame_var,
             calls |-> <<c1, c2, c3>>, popups |-> <<rpc_warning(o3)>>]
        ELSE
            [at_startup |-> IntToStr(cur), var |-> IntToStr(cur),
             start |-> IntToStr(s), end |-> IntToStr(e),
             calls |-> <<c1, c2, c3>>, popups |-> <<>>]

\* on_startup without the line that copies the snapshot into the widget.
startup_result_widget_not_set(o1, o2, o3, cur, s, e) ==
    LET c1 == Call("get_param", "current_frame", IF o1 = "ok" THEN cur ELSE 0, o1)
        c2 == Call("get_param", "start_frame", IF o2 = "ok" THEN s ELSE 0, o2)
        c3 == Call("get_param", "end_frame", IF o3 = "ok" THEN e ELSE 0, o3)
    IN  IF o1 # "ok" THEN
            [at_startup |-> current_frame_at_startup, var |-> current_frame_var,
             start |-> start_frame_var, end |-> end_frame_var,
             calls |-> <<c1>>, popups |-> <<rpc_warning(o1)>>]
        ELSE IF o2 # "ok" THEN
            [at_startup |-> IntToStr(cur), var |-> current_frame_var,
             start |-> start_frame_var, end |-> end_frame_var,
             calls |-> <<c1, c2>>, popups |-> <<rpc_warning(o2)>>]
        ELSE IF o3 # "ok" THEN
            [at_startup |-> IntToStr(cur), var |-> current_frame_var,
             start |-> IntToStr(s), end |-> end_frame_var,
             calls |-> <<c1, c2, c3>>, popups |-> <<rpc_warning(o3)>>]
        ELSE
            [at_startup |-> IntToStr(cur), var |-> current_frame_var,
             start |-> IntToStr(s), end |-> IntToStr(e),
             calls |-> <<c1, c2, c3>>, popups |-> <<>>]

\* on_startup(): the three get_param calls in order; the first one that
\* raises ends the function with one popup, and what was set before stays set.
startup_result(o1, o2, o3, cur, s, e) ==
    LET c1 == Call("get_param", "current_frame", IF o1 = "ok" THEN cur ELSE 0, o1)
        c2 == Call("get_param", "start_frame", IF o2 = "ok" THEN s ELSE 0, o2)
        c3 == Call("get_param", "end_frame", IF o3 = "ok" THEN e ELSE 0, o3)
    IN  IF o1 # "ok" THEN
            [at_startup |-> current_frame_at_startup, var |-> current_frame_var,
             start |-> start_frame_var, end |-> end_frame_var,
             calls |-> <<c1>>, popups |-> <<rpc_warning(o1)>>]
        ELSE IF o2 # "ok" THEN
            [at_startup |-> IntToStr(cur), var |-> IntToStr(cur),
             start |-> start_frame_var, end |-> end_frame_var,
             calls |-> <<c1, c2>>, popups |-> <<rpc_warning(o2)>>]
        ELSE IF o3 # "ok" THEN
            [at_startup |-> IntToStr(cur), var |-> IntToStr(cur),
             start |-> IntToStr(s), end |-> end_frame_var,
             calls |-> <<c1, c2, c3>>, popups |-> <<rpc_warning(o3)>>]
        ELSE
            [at_startup |-> IntToStr(cur), var |-> IntToStr(cur),
             start |-> IntToStr(s), end |-> IntToStr(e),
             calls |-> <<c1, c2, c3>>, popups |-> <<>>]

\* on_startup letting tg.ApiError through: the script ends at line 201.
startup_pc_api_error_uncaught(o1, o2, o3) ==
    LET raised == IF o1 # "ok" THEN o1 ELSE IF o2 # "ok" THEN o2 ELSE o3
    IN  IF raised = "ok" \/ raised \in Failures \ {"ApiError"}
        THEN "Ready" ELSE "Exited"

\* Where the script is after on_startup(): each except clause returns None,
\* so the script goes on to build the widget and enter gui.mainloop(); an
\* exception no clause catches would end the script at line 201.
startup_pc(o1, o2, o3) ==
    LET raised == IF o1 # "ok" THEN o1 ELSE IF o2 # "ok" THEN o2 ELSE o3
    IN  IF raised = "ok" \/ raised \in Failures THEN "Ready" ELSE "Exited"

\* on_startup bound to the event loop as well: it may run again, at any time.
on_startup_any_time ==
    /\ pc \in {"Uninitialized", "Ready"}
    /\ \E o1, o2, o3 \in Outcomes :
          LET r == startup_result(o1, o2, o3, remote.current_frame,
                                  remote.start_frame, remote.end_frame)
          IN  /\ current_frame_at_startup' = r.at_startup
              /\ current_frame_var' = r.var
              /\ start_frame_var' = r.start
              /\ end_frame_var' = r.end
              /\ calls' = r.calls
              /\ popups' = r.popups
              /\ pc' = startup_pc(o1, o2, o3)
    /\ event' = Ev("on_startup", 0)
    /\ UNCHANGED <<ERROR_SHOWN, remote>>
    /\ Keys("other")
    /\ Tally(FALSE, FALSE)

on_startup ==
    /\ pc = "Uninitialized"
    /\ \E o1, o2, o3 \in Outcomes :
          LET r == startup_result(o1, o2, o3, remote.current_frame,
                                  remote.start_frame, remote.end_frame)
          IN  /\ current_frame_at_startup' = r.at_startup
              /\ current_frame_var' = r.var
              /\ start_frame_var' = r.start
              /\ end_frame_var' = r.end
              /\ calls' = r.calls
              /\ popups' = r.popups
              /\ pc' = startup_pc(o1, o2, o3)
    /\ event' = Ev("on_startup", 0)
    /\ UNCHANGED <<ERROR_SHOWN, remote>>
    /\ Keys("other")
    /\ Tally(FALSE, FALSE)

(* ------------------------------ validation ----------------------------- *)

InvalidInput == popup_warning("Invalid input", "Please enter a valid integer.")

\* is_valid_integer without the assignment to ERROR_SHOWN.
is_valid_integer_flag_not_set(value, shown) ==
    IF IsInt(value) THEN
        [ret |-> TRUE, popups |-> <<>>, ERROR_SHOWN |-> shown]
    ELSE IF ~shown THEN
        [ret |-> FALSE, popups |-> <<InvalidInput>>, ERROR_SHOWN |-> shown]
    ELSE
        [ret |-> FALSE, popups |-> <<>>, ERROR_SHOWN |-> shown]

\* is_valid_integer without the test of ERROR_SHOWN.
is_valid_integer_always_pops(value, shown) ==
    IF IsInt(value) THEN
        [ret |-> TRUE, popups |-> <<>>, ERROR_SHOWN |-> shown]
    ELSE
        [ret |-> FALSE, popups |-> <<InvalidInput>>, ERROR_SHOWN |-> TRUE]

\* is_valid_integer(value), with the global it reads and writes: what it
\* returns, the popups it shows and the value it leaves in ERROR_SHOWN.
is_valid_integer(value, shown) ==
    IF IsInt(value) THEN
        [ret |-> TRUE, popups |-> <<>>, ERROR_SHOWN |-> shown]
    ELSE IF ~shown THEN
        [ret |-> FALSE, popups |-> <<InvalidInput>>, ERROR_SHOWN |-> TRUE]
    ELSE
        [ret |-> FALSE, popups |-> <<>>, ERROR_SHOWN |-> shown]

(* ------------------------------ handlers ------------------------------- *)

\* on_go_to pushing whatever the widget holds, 0 for a text that is no
\* integer.
go_to_result_unchecked(text, shown, project, outcome) ==
    LET v == is_valid_integer(text, shown)
        n == IF IsInt(text) THEN ParseInt(text) ELSE 0
    IN  [ERROR_SHOWN |-> IF v.ret THEN FALSE ELSE v.ERROR_SHOWN,
         calls  |-> <<Call("set_param", "current_frame", n, outcome)>>,
         popups |-> v.popups \o
                    (IF outcome = "ok" THEN <<>> ELSE <<rpc_warning(outcome)>>),
         remote |-> IF outcome = "ok"
                    THEN [project EXCEPT !["current_frame"] = n]
                    ELSE project]

\* on_go_to calling set_param a second time when the first call raised.
go_to_result_retry(text, shown, project, outcome) ==
    LET v == is_valid_integer(text, shown)
        c == Call("set_param", "current_frame", ParseInt(text), outcome)
    IN  IF v.ret THEN
            [ERROR_SHOWN |-> FALSE,
             calls  |-> IF outcome = "ok" THEN <<c>> ELSE <<c, c>>,
             popups |-> IF outcome = "ok" THEN <<>> ELSE <<rpc_warning(outcome)>>,
             remote |-> IF outcome = "ok"
                        THEN [project EXCEPT !["current_frame"] = ParseInt(text)]
                        ELSE project]
        ELSE
            [ERROR_SHOWN |-> v.ERROR_SHOWN, calls |-> <<>>, popups |-> v.popups,
             remote |-> project]

\* on_go_to skipping the call when the project already holds the value.
go_to_result_cached(text, shown, project, outcome) ==
    LET v == is_valid_integer(text, shown)
    IN  IF v.ret /\ project.current_frame # ParseInt(text) THEN
            [ERROR_SHOWN |-> FALSE,
             calls  |-> <<Call("set_param", "current_frame", ParseInt(text), outcome)>>,
             popups |-> IF outcome = "ok" THEN <<>> ELSE <<rpc_warning(outcome)>>,
             remote |-> IF outcome = "ok"
                        THEN [project EXCEPT !["current_frame"] = ParseInt(text)]
                        ELSE project]
        ELSE
            [ERROR_SHOWN |-> IF v.ret THEN FALSE ELSE v.ERROR_SHOWN,
             calls |-> <<>>, popups |-> v.popups, remote |-> project]

\* on_go_to pushing the frame under the name of a bound.
go_to_result_wrong_name(text, shown, project, outcome) ==
    LET v == is_valid_integer(text, shown)
    IN  IF v.ret THEN
            [ERROR_SHOWN |-> FALSE,
             calls  |-> <<Call("set_param", "start_frame", ParseInt(text), outcome)>>,
             popups |-> IF outcome = "ok" THEN <<>> ELSE <<rpc_warning(outcome)>>,
             remote |-> IF outcome = "ok"
                        THEN [project EXCEPT !["start_frame"] = ParseInt(text)]
                        ELSE project]
        ELSE
            [ERROR_SHOWN |-> v.ERROR_SHOWN, calls |-> <<>>, popups |-> v.popups,
             remote |-> project]

\* on_go_to clearing ERROR_SHOWN after set_param has returned, not before.
go_to_result_clears_on_success(text, shown, project, outcome) ==
    LET v == is_valid_integer(text, shown)
    IN  IF v.ret THEN
            [ERROR_SHOWN |-> IF outcome = "ok" THEN FALSE ELSE shown,
             calls  |-> <<Call("set_param", "current_frame", ParseInt(text), outcome)>>,
             popups |-> IF outcome = "ok" THEN <<>> ELSE <<rpc_warning(outcome)>>,
             remote |-> IF outcome = "ok"
                        THEN [project EXCEPT !["current_frame"] = ParseInt(text)]
                        ELSE project]
        ELSE
            [ERROR_SHOWN |-> v.ERROR_SHOWN, calls |-> <<>>, popups |-> v.popups,
             remote |-> project]

\* on_go_to pushing the frame after the one in the widget.
go_to_result_off_by_one(text, shown, project, outcome) ==
    LET v == is_valid_integer(text, shown)
    IN  IF v.ret THEN
            [ERROR_SHOWN |-> FALSE,
             calls  |-> <<Call("set_param", "current_frame", ParseInt(text) + 1, outcome)>>,
             popups |-> IF outcome = "ok" THEN <<>> ELSE <<rpc_warning(outcome)>>,
             remote |-> IF outcome = "ok"
                        THEN [project EXCEPT !["current_frame"] = ParseInt(text) + 1]
                        ELSE project]
        ELSE
            [ERROR_SHOWN |-> v.ERROR_SHOWN, calls |-> <<>>, popups |-> v.popups,
             remote |-> project]

\* on_go_to(_), bound to <KeyRelease>: validate the text; if it is an
\* integer clear ERROR_SHOWN and call set_param once, with one popup if the
\* call raises.
go_to_result(text, shown, project, outcome) ==
    LET v == is_valid_integer(text, shown)
    IN  IF v.ret THEN
            [ERROR_SHOWN |-> FALSE,
             calls  |-> <<Call("set_param", "current_frame", ParseInt(text), outcome)>>,
             popups |-> v.popups \o
                        (IF outcome = "ok" THEN <<>> ELSE <<rpc_warning(outcome)>>),
             remote |-> IF outcome = "ok"
                        THEN [project EXCEPT !["current_frame"] = ParseInt(text)]
                        ELSE project]
        ELSE
            [ERROR_SHOWN |-> v.ERROR_SHOWN, calls |-> <<>>, popups |-> v.popups,
             remote |-> project]

\* decrease_value with the sign of increase_value.
decrease_result_adds(text, shown) ==
    LET v == is_valid_integer(text, shown)
    IN  [var |-> IF v.ret THEN IntToStr(ParseInt(text) + 1) ELSE text,
         ERROR_SHOWN |-> v.ERROR_SHOWN, popups |-> v.popups]

\* decrease_value(_), bound to <Down>.
decrease_result(text, shown) ==
    LET v == is_valid_integer(text, shown)
    IN  [var |-> IF v.ret THEN IntToStr(ParseInt(text) - 1) ELSE text,
         ERROR_SHOWN |-> v.ERROR_SHOWN, popups |-> v.popups]
\* increase_value adding two.
increase_result_by_two(text, shown) ==
    LET v == is_valid_integer(text, shown)
    IN  [var |-> IF v.ret THEN IntToStr(ParseInt(text) + 2) ELSE text,
         ERROR_SHOWN |-> v.ERROR_SHOWN, popups |-> v.popups]

\* increase_value(_), bound to <Up>.
increase_result(text, shown) ==
    LET v == is_valid_integer(text, shown)
    IN  [var |-> IF v.ret THEN IntToStr(ParseInt(text) + 1) ELSE text,
         ERROR_SHOWN |-> v.ERROR_SHOWN, popups |-> v.popups]

\* on_mouse_wheel testing event.delta >= 0.
mouse_wheel_result_ge(text, shown, delta) ==
    LET v == is_valid_integer(text, shown)
    IN  [var |-> IF v.ret /\ delta >= 0 THEN IntToStr(ParseInt(text) + 1)
                 ELSE IF v.ret /\ delta < 0 THEN IntToStr(ParseInt(text) - 1)
                 ELSE text,
         ERROR_SHOWN |-> v.ERROR_SHOWN, popups |-> v.popups]

\* on_mouse_wheel(event), bound to <MouseWheel>.
mouse_wheel_result(text, shown, delta) ==
    LET v == is_valid_integer(text, shown)
    IN  [var |-> IF v.ret /\ delta > 0 THEN IntToStr(ParseInt(text) + 1)
                 ELSE IF v.ret /\ delta < 0 THEN IntToStr(ParseInt(text) - 1)
                 ELSE text,
         ERROR_SHOWN |-> v.ERROR_SHOWN, popups |-> v.popups]

\* on_escape restoring the default of the widget instead of the snapshot.
escape_result_default(text, at_startup) == <<"1">>

\* on_escape(_), bound to <Escape>: the text becomes the snapshot.
escape_result(text, at_startup) == at_startup

\* The frames the Up/Down keys and the wheel are followed to.
InRange(text) ==
    IsInt(text) => (ParseInt(text) >= 0 - MaxBack /\ ParseInt(text) <= MaxFrame)

\* The key whose release dispatches <KeyRelease>: the Up key only if it is
\* down.
Released == {"Up", "other"}

on_go_to ==
    /\ pc = "Ready"
    /\ \E k \in Released :
          /\ k = "Up" => up_key \in {"untracked", "pressed", "held"}
          /\ Keys(IF k = "Up" THEN "release_up" ELSE "other")
    /\ \E o \in Outcomes :
          LET r == go_to_result(current_frame_var, ERROR_SHOWN, remote, o)
          IN  /\ ERROR_SHOWN' = r.ERROR_SHOWN
              /\ calls' = r.calls
              /\ popups' = r.popups
              /\ remote' = r.remote
    /\ event' = Ev("on_go_to", 0)
    /\ UNCHANGED <<pc, current_frame_var, current_frame_at_startup,
                   start_frame_var, end_frame_var>>
    /\ Tally(TRUE, IsInt(current_frame_var))

decrease_value ==
    /\ pc = "Ready"
    /\ LET r == decrease_result(current_frame_var, ERROR_SHOWN)
       IN  /\ InRange(r.var)
           /\ current_frame_var' = r.var
           /\ ERROR_SHOWN' = r.ERROR_SHOWN
           /\ popups' = r.popups
    /\ calls' = <<>>
    /\ event' = Ev("decrease_value", 0)
    /\ UNCHANGED <<pc, current_frame_at_startup, start_frame_var, end_frame_var,
                   remote>>
    /\ Keys("other")
    /\ Tally(TRUE, FALSE)

increase_value ==
    /\ pc = "Ready"
    /\ LET r == increase_result(current_frame_var, ERROR_SHOWN)
       IN  /\ InRange(r.var)
           /\ current_frame_var' = r.var
           /\ ERROR_SHOWN' = r.ERROR_SHOWN
           /\ popups' = r.popups
    /\ calls' = <<>>
    /\ event' = Ev("increase_value", 0)
    /\ UNCHANGED <<pc, current_frame_at_startup, start_frame_var, end_frame_var,
                   remote>>
    /\ Keys("press_up")
    /\ Tally(TRUE, FALSE)

on_mouse_wheel ==
    /\ pc = "Ready"
    /\ \E d \in Deltas :
          LET r == mouse_wheel_result(current_frame_var, ERROR_SHOWN, d)
          IN  /\ InRange(r.var)
              /\ current_frame_var' = r.var
              /\ ERROR_SHOWN' = r.ERROR_SHOWN
              /\ popups' = r.popups
              /\ event' = Ev("on_mouse_wheel", d)
    /\ calls' = <<>>
    /\ UNCHANGED <<pc, current_frame_at_startup, start_frame_var, end_frame_var,
                   remote>>
    /\ Keys("other")
    /\ Tally(TRUE, FALSE)

on_escape ==
    /\ pc = "Ready"
    /\ current_frame_var' = escape_result(current_frame_var, current_frame_at_startup)
    /\ calls' = <<>>
    /\ popups' = <<>>
    /\ event' = Ev("on_escape", 0)
    /\ UNCHANGED <<pc, current_frame_at_startup, start_frame_var, end_frame_var,
                   ERROR_SHOWN, remote>>
    /\ Keys("other")
    /\ Tally(FALSE, FALSE)

(* ------------------------------ typing --------------------------------- *)

\* The Entry widget edits its own text on the key presses of typing.  No
\* handler of the script runs on them; on_go_to runs on the key release.
type_text ==
    /\ pc = "Ready"
    /\ \E t \in Typed : current_frame_var' = t
    /\ calls' = <<>>
    /\ popups' = <<>>
    /\ event' = Ev("type_text", 0)
    /\ UNCHANGED <<pc, current_frame_at_startup, start_frame_var, end_frame_var,
                   ERROR_SHOWN, remote>>
    /\ Keys("other")
    /\ Tally(FALSE, FALSE)

(* ------------------------------ behaviours ----------------------------- *)

Next ==
    \/ on_startup
    \/ on_go_to
    \/ decrease_value
    \/ increase_value
    \/ on_mouse_wheel
    \/ on_escape
    \/ type_text

Spec == Init /\ [][Next]_vars

\* The same events, with the Up key followed.
SpecKeys == InitKeys /\ [][Next]_vars

(* ------------------------------ properties ----------------------------- *)

SetParams == {i \in 1..Len(calls) : calls[i].op = "set_param"}

Validating == {"on_go_to", "decrease_value", "increase_value", "on_mouse_wheel"}

\* C1: every set_param call is made by on_go_to, names "current_frame" and
\* carries the integer parsed from the text of the widget, which is an
\* integer; an on_go_to that finds the text invalid makes no remote call.
\* (on_go_to leaves the text as it found it.)
C1_CommitPushesValidatedInteger ==
    /\ \A i \in SetParams :
          /\ event.name = "on_go_to"
          /\ calls[i].name = "current_frame"
          /\ IsInt(current_frame_var)
          /\ calls[i].value = ParseInt(current_frame_var)
    /\ (event.name = "on_go_to" /\ ~IsInt(current_frame_var)) => calls = <<>>

\* on_go_to has pushed 9 for the text "09".
C1_Witness ==
    /\ event.name = "on_go_to"
    /\ current_frame_var = <<"0", "9">>
    /\ calls = <<Call("set_param", "current_frame", 9, "ok")>>

\* C2: when a run of invalid text ends (the text was no integer and now is
\* one), exactly one "Invalid input" popup was shown during the run.  Only
\* runs in which a handler validated the text are held to it.
C2_ExactlyOneWarningPerRun ==
    [][(~IsInt(current_frame_var) /\ IsInt(current_frame_var') /\ run_validated)
          => run_popups = 1]_vars

\* C3: at most one "Invalid input" popup is shown between two clearings of
\* ERROR_SHOWN by on_go_to; a popup is shown only with ERROR_SHOWN false, and
\* leaves it true.
C3_AtMostOneWarningBetweenClears ==
    /\ [](shown_since_clear <= 1)
    /\ [][InvalidShown(popups') > 0 => (~ERROR_SHOWN /\ ERROR_SHOWN')]_vars

\* The Up key on invalid text after the popup has been shown: no second popup.
C3_Witness ==
    /\ event.name = "increase_value"
    /\ ~IsInt(current_frame_var)
    /\ shown_since_clear = 1
    /\ ERROR_SHOWN
    /\ popups = <<>>

\* C4: on a text that parses as v, increase_value leaves a text that parses
\* as v + 1 and decrease_value one that parses as v - 1; neither makes a
\* remote call or changes the snapshot.
C4_StepsAddAndSubtractOne ==
    [][(event'.name \in {"increase_value", "decrease_value"}
          /\ IsInt(current_frame_var))
       => /\ IsInt(current_frame_var')
          /\ ParseInt(current_frame_var') =
                ParseInt(current_frame_var)
                  + (IF event'.name = "increase_value" THEN 1 ELSE 0 - 1)
          /\ calls' = <<>>
          /\ remote' = remote
          /\ current_frame_at_startup' = current_frame_at_startup]_vars

\* The Down key has taken the widget from 0 to -1, with nothing pushed.
C4_Witness ==
    /\ event.name = "decrease_value"
    /\ current_frame_var = <<"-", "1">>
    /\ remote.current_frame = 9
    /\ calls = <<>>

\* C5: on_escape leaves in the widget exactly the snapshot, which no handler
\* has changed since on_startup, and makes no remote call.
C5_RevertRestoresSnapshot ==
    [][/\ pc = "Ready" => current_frame_at_startup' = current_frame_at_startup
       /\ event'.name = "on_escape"
            => /\ current_frame_var' = current_frame_at_startup
               /\ calls' = <<>>
               /\ remote' = remote]_vars

\* Escape after a commit of another frame: the widget shows the snapshot again.
C5_Witness ==
    /\ event.name = "on_escape"
    /\ current_frame_at_startup = <<"9">>
    /\ current_frame_var = <<"9">>
    /\ remote.current_frame = 5
    /\ calls = <<>>

\* The get_param calls of on_startup that raised.
FailedGets == {i \in 1..Len(calls) : calls[i].op = "get_param" /\ calls[i].result # "ok"}

\* What on_startup does on a failure whatever call it is: one popup, naming
\* the failure, and no call after the one that raised.
StartupStopsAtFailure ==
    /\ Len(popups) = 1
    /\ FailedGets = {Len(calls)}
    /\ popups[1] = rpc_warning(calls[Len(calls)].result)

\* C6 as stated: if a get_param call of on_startup fails, one popup is shown,
\* no further remote call is made and the widget still holds "1".
C6_FailedStartupLeavesDefault ==
    (event.name = "on_startup" /\ FailedGets # {})
       => /\ StartupStopsAtFailure
          /\ current_frame_var = <<"1">>

\* C6 amended: one popup and no further call; the widget still holds "1" if
\* it was the current_frame call that failed, and holds the text of the
\* returned current_frame, as the snapshot does, if a later call failed.
C6_FailedStartupKeepsWhatWasFetched ==
    (event.name = "on_startup" /\ FailedGets # {})
       => /\ StartupStopsAtFailure
          /\ IF calls[1].result # "ok"
             THEN /\ current_frame_var = <<"1">>
                  /\ current_frame_at_startup = <<>>
             ELSE /\ IsInt(current_frame_var)
                  /\ ParseInt(current_frame_var) = calls[1].value
                  /\ current_frame_at_startup = current_frame_var

\* get_param("start_frame") timed out after current_frame was fetched as 9.
C6_Witness ==
    /\ event.name = "on_startup"
    /\ Len(calls) = 2
    /\ calls[2].result = "TimeoutError"
    /\ popups = <<rpc_warning("TimeoutError")>>
    /\ current_frame_var = <<"9">>

\* C7: when the three get_param calls succeed, the widget and the snapshot
\* hold the text of the returned current_frame, start_frame_var and
\* end_frame_var the texts of the returned start_frame and end_frame, and no
\* popup is shown.
C7_StartupSuccessSeedsState ==
    (event.name = "on_startup" /\ FailedGets = {})
       => /\ Len(calls) = 3
          /\ calls[1].name = "current_frame" /\ calls[1].value = remote.current_frame
          /\ calls[2].name = "start_frame" /\ calls[2].value = remote.start_frame
          /\ calls[3].name = "end_frame" /\ calls[3].value = remote.end_frame
          /\ current_frame_var = IntToStr(calls[1].value)
          /\ IsInt(current_frame_var)
          /\ ParseInt(current_frame_var) = calls[1].value
          /\ current_frame_at_startup = current_frame_var
          /\ start_frame_var = IntToStr(calls[2].value)
          /\ end_frame_var = IntToStr(calls[3].value)
          /\ popups = <<>>

\* A startup against the project whose current frame is -1.
C7_Witness ==
    /\ event.name = "on_startup"
    /\ popups = <<>>
    /\ current_frame_var = <<"-", "1">>
    /\ current_frame_at_startup = <<"-", "1">>
    /\ start_frame_var = <<"0">>
    /\ end_frame_var = <<"1", "0">>

\* C8: when on_go_to runs on valid text and set_param raises, one popup is
\* shown, for that failure, set_param is not called a second time, and the
\* text of the widget and the snapshot are as before.
C8_FailedPushIsAbandoned ==
    [][(event'.name = "on_go_to"
          /\ \E i \in 1..Len(calls') : calls'[i].result # "ok")
       => /\ Len(calls') = 1
          /\ popups' = <<rpc_warning(calls'[1].result)>>
          /\ current_frame_var' = current_frame_var
          /\ current_frame_at_startup' = current_frame_at_startup
          /\ remote' = remote]_vars

\* A push of 5 timed out: the widget keeps "5", the project its frame.
C8_Witness ==
    /\ event.name = "on_go_to"
    /\ current_frame_var = <<"5">>
    /\ calls = <<Call("set_param", "current_frame", 5, "TimeoutError")>>
    /\ popups = <<rpc_warning("TimeoutError")>>
    /\ remote.current_frame # 5

\* C9: an on_go_to that follows an on_go_to on valid text calls set_param
\* again, with the same integer, and leaves the text of the widget, the
\* snapshot and ERROR_SHOWN as they were.
C9_CommitIsIdempotent ==
    [][(event.name = "on_go_to" /\ IsInt(current_frame_var)
          /\ event'.name = "on_go_to")
       => /\ Len(calls') = 1
          /\ calls'[1].op = "set_param"
          /\ calls'[1].name = "current_frame"
          /\ calls'[1].value = calls[1].value
          /\ current_frame_var' = current_frame_var
          /\ current_frame_at_startup' = current_frame_at_startup
          /\ ERROR_SHOWN' = ERROR_SHOWN]_vars

\* 5 is pushed again after the project has taken it (no project starts at
\* frame 5); this second call times out.
C9_Witness ==
    /\ event.name = "on_go_to"
    /\ current_frame_var = <<"5">>
    /\ remote.current_frame = 5
    /\ calls = <<Call("set_param", "current_frame", 5, "TimeoutError")>>
    /\ ~ERROR_SHOWN

\* C10: on a text that parses as v, on_mouse_wheel leaves a text that parses
\* as v + 1 for a positive delta and v - 1 for a negative one, and the text
\* itself for delta 0; no handler other than on_go_to calls set_param or
\* changes the project's current_frame, so nothing is pushed from the wheel
\* event to the next key release.
C10_WheelStepsLocally ==
    [][/\ (event'.name = "on_mouse_wheel" /\ IsInt(current_frame_var))
            => /\ IsInt(current_frame_var')
               /\ ParseInt(current_frame_var') =
                     ParseInt(current_frame_var)
                       + (IF event'.delta > 0 THEN 1
                          ELSE IF event'.delta < 0 THEN 0 - 1 ELSE 0)
               /\ event'.delta = 0 => current_frame_var' = current_frame_var
       /\ (pc = "Ready" /\ event'.name # "on_go_to")
            => /\ calls' = <<>>
               /\ remote' = remote]_vars

\* The wheel has turned down on "5": the widget shows "4", the project does
\* not hold 4.
C10_Witness ==
    /\ event.name = "on_mouse_wheel"
    /\ event.delta < 0
    /\ current_frame_var = <<"4">>
    /\ remote.current_frame # 4
    /\ calls = <<>>

\* The last handler showed a warning or had a remote call fail.
ErrorSeen ==
    \/ popups # <<>>
    \/ \E i \in 1..Len(calls) : calls[i].result # "ok"

\* C11: after an "Invalid input" warning, a failed startup fetch or a failed
\* push, the script is in its event loop, where the key release, Up, Down,
\* the wheel and Escape are handled (pc = "Ready" is all their handlers ask).
C11_NoErrorIsTerminal == ErrorSeen => pc = "Ready"

\* The startup fetch failed with tg.ApiError and the event loop is running.
C11_Witness ==
    /\ event.name = "on_startup"
    /\ calls[1].result = "ApiError"
    /\ popups = <<rpc_warning("ApiError")>>
    /\ pc = "Ready"

\* The handlers of the script (typing is the widget's own doing).
Handlers == {"on_startup", "on_go_to", "decrease_value", "increase_value",
             "on_mouse_wheel", "on_escape"}

\* C12: after every handler, ERROR_SHOWN is true only if the text of the
\* widget is no integer.
C12_FlagOnlyWhileInvalid ==
    (event.name \in Handlers /\ ERROR_SHOWN) => ~IsInt(current_frame_var)

\* C13: in the event loop the snapshot is an integer, so the text of the
\* widget is an integer right after on_escape.
C13_SnapshotIsInteger ==
    /\ pc = "Ready" => IsInt(current_frame_at_startup)
    /\ event.name = "on_escape" => IsInt(current_frame_var)

\* C14: the snapshot, start_frame_var and end_frame_var change only in
\* on_startup, the snapshot only to the text of a current_frame that
\* get_param returned; no set_param names anything but current_frame, and the
\* project's start_frame and end_frame never change.
C14_SnapshotAndBoundsWrittenAtStartupOnly ==
    /\ [][<<current_frame_at_startup, start_frame_var, end_frame_var>>'
             # <<current_frame_at_startup, start_frame_var, end_frame_var>>
          => /\ pc = "Uninitialized"
             /\ event'.name = "on_startup"
             /\ calls'[1].name = "current_frame"
             /\ calls'[1].result = "ok"
             /\ current_frame_at_startup' = IntToStr(calls'[1].value)]_vars
    /\ [][pc = "Ready"
          => UNCHANGED <<current_frame_at_startup, start_frame_var,
                         end_frame_var>>]_vars
    /\ [](\A i \in SetParams : calls[i].name = "current_frame")
    /\ [][/\ remote'.start_frame = remote.start_frame
          /\ remote'.end_frame = remote.end_frame]_vars

\* 5 has been pushed: snapshot and bounds are those fetched at startup.
C14_Witness ==
    /\ event.name = "on_go_to"
    /\ calls = <<Call("set_param", "current_frame", 5, "ok")>>
    /\ current_frame_at_startup = <<"9">>
    /\ start_frame_var = <<"1">>
    /\ end_frame_var = <<"1", "2">>
    /\ remote = [current_frame |-> 5, start_frame |-> 1, end_frame |-> 12]

\* C15: on a text that is no integer, increase_value, decrease_value and
\* on_mouse_wheel leave the text, the snapshot and the bounds as they are and
\* make no remote call; they show the "Invalid input" popup and set
\* ERROR_SHOWN if it was false, and do nothing at all if it was true.
C15_StepsOnInvalidTextAreNoOps ==
    [][(event'.name \in {"increase_value", "decrease_value", "on_mouse_wheel"}
          /\ ~IsInt(current_frame_var))
       => /\ current_frame_var' = current_frame_var
          /\ UNCHANGED <<current_frame_at_startup, start_frame_var,
                         end_frame_var, remote, pc>>
          /\ calls' = <<>>
          /\ ERROR_SHOWN'
          /\ popups' = IF ERROR_SHOWN THEN <<>> ELSE <<InvalidInput>>]_vars

\* The Down key on "a" with ERROR_SHOWN false: one popup, the text stays.
C15_Witness ==
    /\ event.name = "decrease_value"
    /\ current_frame_var = <<"a">>
    /\ popups = <<InvalidInput>>
    /\ ERROR_SHOWN
    /\ calls = <<>>

GetParams == {i \in 1..Len(calls) : calls[i].op = "get_param"}

\* C16: on_startup runs once, as the first step, before any handler of the
\* event loop: get_param is called at most three times, all of them in that
\* step, and no later step calls it.
C16_StartupRunsOnceAndFirst ==
    /\ [](GetParams # {} => event.name = "on_startup")
    /\ [](Cardinality(GetParams) <= 3)
    /\ [][event'.name = "on_startup"
          => pc = "Uninitialized" /\ event.name = "none"]_vars
    /\ [][event'.name # "on_startup"
          => pc = "Ready" /\ pc' = "Ready" /\ GetParams' = {}]_vars
    /\ [](pc = "Uninitialized" => event.name = "none")

\* A wheel event after a startup that fetched all three parameters.
C16_Witness ==
    /\ event.name = "on_mouse_wheel"
    /\ current_frame_at_startup = <<"9">>
    /\ end_frame_var = <<"1", "2">>
    /\ calls = <<>>

\* C17: after an on_go_to on a text that is an integer ERROR_SHOWN is false,
\* whether set_param returned or raised; after an on_go_to on a text that is
\* no integer it is true.
C17_CommitClearsFlagOnValidTextOnly ==
    /\ [](event.name = "on_go_to" => (ERROR_SHOWN <=> ~IsInt(current_frame_var)))
    /\ [][(event'.name = "on_go_to" /\ ~IsInt(current_frame_var))
          => ~(ERROR_SHOWN /\ ~ERROR_SHOWN')]_vars

\* The push of 5 raised tg.ApiError; ERROR_SHOWN is false all the same.
C17_Witness ==
    /\ event.name = "on_go_to"
    /\ current_frame_var = <<"5">>
    /\ calls[1].result = "ApiError"
    /\ ~ERROR_SHOWN


\* The Up key is down.
UpDown == up_key \in {"pressed", "held"}

\* The <Up> event of a key press on a text that is an integer: the text goes
\* up by one and no remote call is made.
PressSteps ==
    [][(event'.name = "increase_value" /\ up_key = "up"
          /\ IsInt(current_frame_var))
       => /\ up_key' = "pressed"
          /\ IsInt(current_frame_var')
          /\ ParseInt(current_frame_var') = ParseInt(current_frame_var) + 1
          /\ calls' = <<>>
          /\ remote' = remote]_vars

\* The release of the Up key as the event next after its press: on_go_to
\* makes one set_param("current_frame", n) call, n the integer the press left
\* in the widget, and the project has that frame if the call returns.
ReleasePushes ==
    [][(up_key = "pressed" /\ up_key' = "up" /\ IsInt(current_frame_var))
       => /\ event.name = "increase_value"
          /\ calls = <<>>
          /\ event'.name = "on_go_to"
          /\ current_frame_var' = current_frame_var
          /\ Len(calls') = 1
          /\ calls'[1].op = "set_param"
          /\ calls'[1].name = "current_frame"
          /\ calls'[1].value = ParseInt(current_frame_var)
          /\ calls'[1].result = "ok"
                => remote'.current_frame = ParseInt(current_frame_var)]_vars

\* C18: pressing and releasing the Up key on the integer v makes one
\* set_param("current_frame", v + 1) call, at the release, and no set_param
\* call is made while the key is down.
C18_StepPushedExactlyAtKeyRelease ==
    /\ PressSteps
    /\ ReleasePushes
    /\ [][(UpDown /\ UpDown') => SetParams' = {}]_vars

\* C18, with the release of the Up key the event next after its press.
C18_TapPushesSteppedValue ==
    /\ PressSteps
    /\ ReleasePushes
    /\ [](up_key = "pressed" => SetParams = {})

\* The Up key was pressed on "9" and released: 10 has been pushed.
C18_Witness ==
    /\ up_key = "up"
    /\ event.name = "on_go_to"
    /\ current_frame_at_startup = <<"9">>
    /\ current_frame_var = <<"1", "0">>
    /\ calls = <<Call("set_param", "current_frame", 10, "ok")>>
    /\ remote.current_frame = 10

\* The text of the widget is an integer, and not the project's current frame.
Differ ==
    IsInt(current_frame_var) /\ ParseInt(current_frame_var) # remote.current_frame

\* The project changes only by an on_go_to whose set_param call returned, and
\* then its current frame is the integer in the widget.
RemoteChangesByPush ==
    /\ [][remote' # remote
          => /\ event'.name = "on_go_to"
             /\ calls' = <<Call("set_param", "current_frame",
                                ParseInt(current_frame_var), "ok")>>
             /\ remote' = [remote EXCEPT
                             !.current_frame = ParseInt(current_frame_var)]]_vars
    /\ [](event.name = "on_go_to" /\ SetParams # {} /\ calls[1].result = "ok"
             => IsInt(current_frame_var) /\ ~Differ)

\* The events after which an integer in the widget may differ from the
\* project's current frame, as the claim lists them; a failed push makes no
\* difference, it leaves one there.
StepWheelRevert ==
    {"increase_value", "decrease_value", "on_mouse_wheel", "on_escape"}

\* C19: the project's current frame changes only by a set_param of on_go_to
\* that returned, and is the integer in the widget right after it; an integer
\* in the widget differs from it only after a step, a wheel event, Escape or a
\* failed push.
C19_RemoteFollowsCommittedText ==
    /\ RemoteChangesByPush
    /\ [](event.name = "on_startup" => ~Differ)
    /\ [][(pc = "Ready" /\ ~Differ /\ Differ')
          => event'.name \in StepWheelRevert]_vars

\* C19, with the two other ways to a difference: a startup whose fetch of
\* current_frame raised, which leaves "1" in the widget, and a text typed and
\* not pushed yet.
C19_RemoteChangesOnlyByCommit ==
    /\ RemoteChangesByPush
    /\ [](event.name = "on_startup"
             => IF calls[1].result = "ok" THEN ~Differ
                ELSE current_frame_var = <<"1">>)
    /\ [][(pc = "Ready" /\ ~Differ /\ Differ')
          => event'.name \in StepWheelRevert \cup {"type_text"}]_vars

\* The fetch at startup raised and the project was at frame 9 or -1; the
\* default "1" was then pushed and the project is at frame 1.
C19_Witness ==
    /\ event.name = "on_go_to"
    /\ current_frame_at_startup = <<>>
    /\ current_frame_var = <<"1">>
    /\ calls = <<Call("set_param", "current_frame", 1, "ok")>>
    /\ remote.current_frame = 1

=============================================================================
